---- MODULE Spec2Model ----
(***************************************************************************)
(* A model of ifxcli.c, the Tcl extension that exposes the Informix CLI    *)
(* (ODBC) as the commands ifx::connect, ifx::execute, ifx::fetch,          *)
(* ifx::close_result and ifx::disconnect.                                  *)
(*                                                                         *)
(* A C string is a sequence of one-character strings.  The interpreter's   *)
(* association table (Tcl_SetAssocData / Tcl_GetAssocData) is the function *)
(* assoc from handle names to the structure stored under the name.         *)
(***************************************************************************)
EXTENDS Integers, Sequences, FiniteSets, TLC

VARIABLES
    env,            \* the process environment: ODBCINI, HOME, ODBCSYSINI
    fs,             \* the candidate odbc.ini files, by path
    phase,          \* "setup" while the inputs are drawn, then "run" / "done"
    req,            \* the arguments of the command that ran last
    cfgRead,        \* read_odbc_ini's return value and the DsnConfig it filled
    conn_str,       \* IfxConnect_Cmd's conn_str
    assoc,          \* the interpreter's association table
    conn_counter,   \* IfxConnect_Cmd's static conn_counter
    result_counter, \* IfxExecute_Cmd's static result_counter
    last,           \* what the command that ran last did and returned
    released,       \* the names whose object a disconnect / close_result freed
    crashed         \* the process died on an invalid memory access

vars == <<env, fs, phase, req, cfgRead, conn_str, assoc, conn_counter,
          result_counter, last, released, crashed>>

(***************************************************************************)
(* Bounds of the model.                                                    *)
(***************************************************************************)
MaxFileLines == 2    \* lines in one odbc.ini file
MaxFiles == 2        \* odbc.ini files that hold any line
MaxValLen == 1       \* length of a field value given to build_connection_string
MaxConns == 2        \* successful ifx::connect calls
MaxResults == 2      \* successful ifx::execute calls

(***************************************************************************)
(* Sizes of the C buffers.                                                 *)
(***************************************************************************)
DriverSize == 512
FieldSize == 256
ShortFieldSize == 64
KeySize == 256
ValueSize == 512
SectionWidth == 255
ConnStrSize == 2048

(***************************************************************************)
(* C string helpers.                                                       *)
(***************************************************************************)
UpperCase == <<"A","B","C","D","E","F","G","H","I","J","K","L","M",
               "N","O","P","Q","R","S","T","U","V","W","X","Y","Z">>
LowerCase == <<"a","b","c","d","e","f","g","h","i","j","k","l","m",
               "n","o","p","q","r","s","t","u","v","w","x","y","z">>

\* tolower(3)
ToLower(c) ==
    IF \E i \in DOMAIN UpperCase : UpperCase[i] = c
    THEN LowerCase[CHOOSE i \in DOMAIN UpperCase : UpperCase[i] = c]
    ELSE c

\* strcasecmp(a, b) == 0
StrCaseEq(a, b) ==
    /\ Len(a) = Len(b)
    /\ \A i \in 1..Len(a) : ToLower(a[i]) = ToLower(b[i])

\* snprintf(dst, size, "%s", s) and strncpy(dst, s, size-1); dst[size-1] = 0:
\* at most size-1 characters are kept
Truncate(s, size) == IF Len(s) < size THEN s ELSE SubSeq(s, 1, size - 1)

\* while (*p == ' ' || *p == '\t') p++;
RECURSIVE SkipBlanks(_)
SkipBlanks(s) ==
    IF s # <<>> /\ Head(s) \in {" ", "\t"} THEN SkipBlanks(Tail(s)) ELSE s

\* while (end >= start && *end is in set) *end-- = '\0';
RECURSIVE TrimRight(_, _)
TrimRight(s, set) ==
    IF s # <<>> /\ s[Len(s)] \in set
    THEN TrimRight(SubSeq(s, 1, Len(s) - 1), set)
    ELSE s

\* strchr(s, c): the index of the first c in s, 0 when there is none
IndexOf(s, c) ==
    IF \E i \in 1..Len(s) : s[i] = c
    THEN CHOOSE i \in 1..Len(s) : s[i] = c /\ \A j \in 1..(i - 1) : s[j] # c
    ELSE 0

\* sscanf(p, "[%255[^]]]", section): the characters after '[' up to the first
\* ']' (or the end of the line), at most 255 of them; the empty sequence when
\* the conversion fails (nothing between '[' and ']')
ScanSection(p) ==
    LET rest == Tail(p)
        close == IndexOf(rest, "]")
        run == IF close = 0 THEN rest ELSE SubSeq(rest, 1, close - 1)
    IN  IF Len(run) > SectionWidth THEN SubSeq(run, 1, SectionWidth) ELSE run

(***************************************************************************)
(* DsnConfig and read_odbc_ini.                                            *)
(***************************************************************************)
ZeroConfig ==
    [driver |-> <<>>, database |-> <<>>, server |-> <<>>, host |-> <<>>,
     service |-> <<>>, protocol |-> <<>>, user |-> <<>>, password |-> <<>>]

KeyDriver == <<"d","r","i","v","e","r">>
KeyDatabase == <<"d","a","t","a","b","a","s","e">>
KeyServer == <<"s","e","r","v","e","r">>
KeyServerName == <<"s","e","r","v","e","r","n","a","m","e">>
KeyHost == <<"h","o","s","t">>
KeyService == <<"s","e","r","v","i","c","e">>
KeyPort == <<"p","o","r","t">>
KeyProtocol == <<"p","r","o","t","o","c","o","l">>
KeyUid == <<"u","i","d">>
KeyLogonId == <<"l","o","g","o","n","i","d">>
KeyPwd == <<"p","w","d">>
KeyPassword == <<"p","a","s","s","w","o","r","d">>

\* the chain of strcasecmp tests that stores one key's value; st is the
\* record [config, found, in_section] of read_odbc_ini's locals
StoreValue(st, key, v) ==
    IF StrCaseEq(key, KeyDriver)
    THEN [st EXCEPT !.config.driver = Truncate(v, DriverSize), !.found = TRUE]
    ELSE IF StrCaseEq(key, KeyDatabase)
    THEN [st EXCEPT !.config.database = Truncate(v, FieldSize)]
    ELSE IF StrCaseEq(key, KeyServer) \/ StrCaseEq(key, KeyServerName)
    THEN [st EXCEPT !.config.server = Truncate(v, FieldSize)]
    ELSE IF StrCaseEq(key, KeyHost)
    THEN [st EXCEPT !.config.host = Truncate(v, FieldSize)]
    ELSE IF StrCaseEq(key, KeyService) \/ StrCaseEq(key, KeyPort)
    THEN [st EXCEPT !.config.service = Truncate(v, ShortFieldSize)]
    ELSE IF StrCaseEq(key, KeyProtocol)
    THEN [st EXCEPT !.config.protocol = Truncate(v, ShortFieldSize)]
    ELSE IF StrCaseEq(key, KeyUid) \/ StrCaseEq(key, KeyLogonId)
    THEN [st EXCEPT !.config.user = Truncate(v, FieldSize)]
    ELSE IF StrCaseEq(key, KeyPwd) \/ StrCaseEq(key, KeyPassword)
    THEN [st EXCEPT !.config.password = Truncate(v, FieldSize)]
    ELSE st

\* the body of the while (fgets(...)) loop, for one line
ParseLine(st, line, dsn) ==
    LET p == SkipBlanks(line)
    IN  IF p = <<>> \/ Head(p) \in {"#", ";", "\n"}
        THEN st
        ELSE IF Head(p) = "["
        THEN LET section == ScanSection(p)
             IN  IF section # <<>>
                 THEN [st EXCEPT !.in_section = (section = dsn)]
                 ELSE st
        ELSE IF st.in_section
        THEN LET eq == IndexOf(p, "=")
             IN  IF eq = 0
                 THEN st
                 ELSE LET key == TrimRight(Truncate(SubSeq(p, 1, eq - 1), KeySize),
                                           {" ", "\t"})
                          v == TrimRight(
                                 SkipBlanks(Truncate(SubSeq(p, eq + 1, Len(p)),
                                                     ValueSize)),
                                 {" ", "\t", "\n"})
                      IN  StoreValue(st, key, v)
        ELSE st

\* the while (fgets(...)) loop over the lines of one file
RECURSIVE ParseLines(_, _, _)
ParseLines(st, lines, dsn) ==
    IF lines = <<>> THEN st
    ELSE ParseLines(ParseLine(st, Head(lines), dsn), Tail(lines), dsn)

\* an environment variable is [isset, val]; a path is a sequence of pieces, so
\* that snprintf("%s/odbc.ini", dir) is a concatenation
NoFile == [exists |-> FALSE, lines |-> <<>>]
EtcPath == <<"/etc", "/odbc.ini">>

\* the list ini_paths[0..num_paths-1]
IniPaths(e) ==
    (IF e.ODBCINI.isset /\ e.ODBCINI.val # <<>> THEN <<e.ODBCINI.val>> ELSE <<>>)
    \o (IF e.HOME.isset /\ e.HOME.val # <<>>
        THEN <<e.HOME.val \o <<"/.odbc.ini">> >> ELSE <<>>)
    \o (IF e.ODBCSYSINI.isset /\ e.ODBCSYSINI.val # <<>>
        THEN <<e.ODBCSYSINI.val \o <<"/odbc.ini">> >> ELSE <<>>)
    \o <<EtcPath>>

\* fopen(path, "r")
FOpen(f, path) == IF path \in DOMAIN f THEN f[path] ELSE NoFile

\* for (i = 0; i < num_paths; i++) { ... if (found) return 1; } return 0;
RECURSIVE ReadLoop(_, _, _, _, _)
ReadLoop(paths, i, f, dsn, st) ==
    IF i > Len(paths)
    THEN [ret |-> 0, config |-> st.config]
    ELSE LET fp == FOpen(f, paths[i])
         IN  IF ~fp.exists
             THEN ReadLoop(paths, i + 1, f, dsn, st)
             ELSE LET st2 == ParseLines([st EXCEPT !.in_section = FALSE],
                                        fp.lines, dsn)
                  IN  IF st2.found
                      THEN [ret |-> 1, config |-> st2.config]
                      ELSE ReadLoop(paths, i + 1, f, dsn, st2)

ReadOdbcIni(e, f, dsn) ==
    ReadLoop(IniPaths(e), 1, f, dsn,
             [config |-> ZeroConfig, found |-> FALSE, in_section |-> FALSE])

(***************************************************************************)
(* build_connection_string.                                                *)
(***************************************************************************)
StrDSN == <<"D","S","N">>
StrDATABASE == <<"D","A","T","A","B","A","S","E">>
StrHOST == <<"H","O","S","T">>
StrSERVER == <<"S","E","R","V","E","R">>
StrSERVICE == <<"S","E","R","V","I","C","E">>
StrPROTOCOL == <<"P","R","O","T","O","C","O","L">>
StrUID == <<"U","I","D">>
StrPWD == <<"P","W","D">>

\* len += snprintf(conn_str + len, bufsize - len, "KEY=%s;", value), on the
\* record b = [buf, len].  Once an output was cut, len exceeds the buffer and
\* the later writes land past its terminator: the string in conn_str ends
\* where it was cut.
Emit(b, bufsize, key, value) ==
    LET piece == key \o <<"=">> \o value \o <<";">>
        avail == bufsize - b.len
    IN  [buf |-> IF avail > 0 THEN b.buf \o Truncate(piece, avail) ELSE b.buf,
         len |-> b.len + Len(piece)]

\* build_connection_string with a fault: the configured credentials are appended even when the command
\* gave its own (if instead of else if)
BuildConnectionStringBothCredentials(config, dsn, user, password, bufsize) ==
    LET b0 == Emit([buf |-> <<>>, len |-> 0], bufsize, StrDSN, dsn)
        b1 == IF config.database # <<>>
              THEN Emit(b0, bufsize, StrDATABASE, config.database) ELSE b0
        b2 == IF config.host # <<>>
              THEN Emit(b1, bufsize, StrHOST, config.host) ELSE b1
        b3 == IF config.server # <<>>
              THEN Emit(b2, bufsize, StrSERVER, config.server) ELSE b2
        b4 == IF config.service # <<>>
              THEN Emit(b3, bufsize, StrSERVICE, config.service) ELSE b3
        b5 == IF config.protocol # <<>>
              THEN Emit(b4, bufsize, StrPROTOCOL, config.protocol) ELSE b4
        b6 == IF user # <<>> THEN Emit(b5, bufsize, StrUID, user) ELSE b5
        b7 == IF config.user # <<>>
              THEN Emit(b6, bufsize, StrUID, config.user) ELSE b6
        b8 == IF password # <<>> THEN Emit(b7, bufsize, StrPWD, password) ELSE b7
        b9 == IF config.password # <<>>
              THEN Emit(b8, bufsize, StrPWD, config.password) ELSE b8
    IN  b9.buf

BuildConnectionString(config, dsn, user, password, bufsize) ==
    LET b0 == Emit([buf |-> <<>>, len |-> 0], bufsize, StrDSN, dsn)
        b1 == IF config.database # <<>>
              THEN Emit(b0, bufsize, StrDATABASE, config.database) ELSE b0
        b2 == IF config.host # <<>>
              THEN Emit(b1, bufsize, StrHOST, config.host) ELSE b1
        b3 == IF config.server # <<>>
              THEN Emit(b2, bufsize, StrSERVER, config.server) ELSE b2
        b4 == IF config.service # <<>>
              THEN Emit(b3, bufsize, StrSERVICE, config.service) ELSE b3
        b5 == IF config.protocol # <<>>
              THEN Emit(b4, bufsize, StrPROTOCOL, config.protocol) ELSE b4
        b6 == IF user # <<>>
              THEN Emit(b5, bufsize, StrUID, user)
              ELSE IF config.user # <<>>
              THEN Emit(b5, bufsize, StrUID, config.user) ELSE b5
        b7 == IF password # <<>>
              THEN Emit(b6, bufsize, StrPWD, password)
              ELSE IF config.password # <<>>
              THEN Emit(b6, bufsize, StrPWD, config.password) ELSE b6
    IN  b7.buf

(***************************************************************************)
(* IfxConnect_Cmd up to the call of build_connection_string: the record    *)
(* [ini, user, password, conn_str] of what it read and built.  args is the *)
(* sequence objv[1..objc-1].                                               *)
(***************************************************************************)
PrepareConnect(e, f, args) ==
    LET dsn == args[1]
        r == ReadOdbcIni(e, f, dsn)
        config == IF r.ret = 0 THEN ZeroConfig ELSE r.config
        user == IF Len(args) >= 2 THEN args[2] ELSE <<>>
        password == IF Len(args) >= 3 THEN args[3] ELSE <<>>
    IN  [ini |-> r, config |-> config,
         conn_str |-> BuildConnectionString(config, dsn, user, password,
                                            ConnStrSize)]

(***************************************************************************)
(* Handle names and the association table.                                 *)
(***************************************************************************)
\* snprintf(conn_name, ..., "ifxconn%d", n) and snprintf(result_name, ...,
\* "ifxresult%d", n): the prefix and the number printed
ConnName(n) == <<"ifxconn", n>>
ResultName(n) == <<"ifxresult", n>>

\* a name no command ever registers
StrayName == <<"nosuch", 0>>

Names ==
    {ConnName(n) : n \in 1..MaxConns} \cup {ResultName(n) : n \in 1..MaxResults}


\* the NULL that Tcl_GetAssocData returns for a name that is not registered
Null == [kind |-> "null"]

NoReq == [cmd |-> "none", args |-> <<>>]
NoLast == [cmd |-> "none"]

\* an interpreter in which no ifx command has run
Idle ==
    /\ assoc = [n \in Names |-> Null]
    /\ conn_counter = 0
    /\ result_counter = 0
    /\ last = NoLast
    /\ released = {}
    /\ crashed = FALSE

idleVars == <<assoc, conn_counter, result_counter, last, released, crashed>>

(***************************************************************************)
(* The resolution of a DSN: the environment and the odbc.ini files are     *)
(* drawn, then ifx::connect reads them and builds its connection string.   *)
(***************************************************************************)
Unset == [isset |-> FALSE, val |-> <<>>]
SetTo(v) == [isset |-> TRUE, val |-> v]

\* the values each variable takes: unset, empty, or one path
EnvValues(var) ==
    {Unset, SetTo(<<>>),
     SetTo(IF var = "ODBCINI" THEN <<"/u.ini">>
           ELSE IF var = "HOME" THEN <<"/h">> ELSE <<"/s">>)}

AllPaths == {<<"/u.ini">>, <<"/h", "/.odbc.ini">>, <<"/s", "/odbc.ini">>, EtcPath}

\* the lines the files are made of, as fgets returns them
LineSectionD == <<"[", "d", "]", "\n">>
LineSectionE == <<"[", "e", "]", "\n">>
LineDriver == <<"D","r","i","v","e","r","=","x","\n">>
LineDatabase == <<"d","a","t","a","b","a","s","e","=","a","\n">>
LineHost == <<" ","H","O","S","T"," ","="," ","h"," ","\n">>
LineUid == <<"u","i","d","=","u","\n">>
LineComment == <<"#","[","d","]","\n">>

IniLines ==
    {LineSectionD, LineSectionE, LineDriver, LineDatabase, LineHost, LineUid,
     LineComment}

DsnD == <<"d">>
ArgUser == <<"u">>

\* the argument lists objv[1..] of the ifx::connect calls the model makes
ConnectArgs == {<<DsnD>>, <<DsnD, ArgUser>>}

Range(s) == {s[i] : i \in DOMAIN s}

InitIni ==
    /\ env = [ODBCINI |-> Unset, HOME |-> Unset, ODBCSYSINI |-> Unset]
    /\ fs = [p \in AllPaths |-> NoFile]
    /\ phase = "setup"
    /\ req = NoReq
    /\ cfgRead = [ret |-> 0, config |-> ZeroConfig]
    /\ conn_str = <<>>
    /\ Idle

\* setenv: only before any file is made, so that a file exists only on a
\* path that is searched
SetEnv(var, val) ==
    /\ phase = "setup"
    /\ \A p \in AllPaths : ~fs[p].exists
    /\ env[var] # val
    /\ env' = [env EXCEPT ![var] = val]
    /\ UNCHANGED <<fs, phase, req, cfgRead, conn_str, idleVars>>

CreateFile(p) ==
    /\ phase = "setup"
    /\ p \in Range(IniPaths(env))
    /\ ~fs[p].exists
    /\ fs' = [fs EXCEPT ![p] = [exists |-> TRUE, lines |-> <<>>]]
    /\ UNCHANGED <<env, phase, req, cfgRead, conn_str, idleVars>>

AppendLine(p, l) ==
    /\ phase = "setup"
    /\ fs[p].exists
    /\ Len(fs[p].lines) < MaxFileLines
    /\ \/ fs[p].lines # <<>>
       \/ Cardinality({q \in AllPaths : fs[q].lines # <<>>}) < MaxFiles
    /\ fs' = [fs EXCEPT ![p].lines = Append(@, l)]
    /\ UNCHANGED <<env, phase, req, cfgRead, conn_str, idleVars>>

\* IfxConnect_Cmd from Tcl_GetString(objv[1]) to build_connection_string
ResolveDsn(args) ==
    /\ phase = "setup"
    /\ LET r == PrepareConnect(env, fs, args)
       IN  /\ cfgRead' = r.ini
           /\ conn_str' = r.conn_str
    /\ req' = [cmd |-> "connect", args |-> args]
    /\ phase' = "done"
    /\ UNCHANGED <<env, fs, idleVars>>

NextIni ==
    \/ \E var \in {"ODBCINI", "HOME", "ODBCSYSINI"} :
           \E val \in EnvValues(var) : SetEnv(var, val)
    \/ \E p \in AllPaths : CreateFile(p)
    \/ \E p \in AllPaths : \E l \in IniLines : AppendLine(p, l)
    \/ \E args \in ConnectArgs : ResolveDsn(args)

SpecIni == InitIni /\ [][NextIni]_vars

(***************************************************************************)
(* build_connection_string on its own: the DsnConfig and the arguments are *)
(* drawn, then the string is built.                                        *)
(***************************************************************************)
\* the strings c, cc, ... of at most MaxValLen characters, the empty one too
Strings(c) == {[i \in 1..n |-> c] : n \in 0..MaxValLen}

BuildConfigs ==
    [driver : {<<>>}, database : Strings("a"), server : Strings("b"),
     host : Strings("c"), service : Strings("e"), protocol : Strings("f"),
     user : Strings("g"), password : Strings("h")]

InitBuild ==
    /\ env = [ODBCINI |-> Unset, HOME |-> Unset, ODBCSYSINI |-> Unset]
    /\ fs = [p \in AllPaths |-> NoFile]
    /\ phase = "setup"
    /\ \E dsn \in Strings("d"), user \in Strings("u"), password \in Strings("p") :
           req = [cmd |-> "build", args |-> <<dsn, user, password>>]
    /\ \E c \in BuildConfigs : cfgRead = [ret |-> 1, config |-> c]
    /\ conn_str = <<>>
    /\ Idle

Build ==
    /\ phase = "setup"
    /\ conn_str' = BuildConnectionString(cfgRead.config, req.args[1], req.args[2],
                                         req.args[3], ConnStrSize)
    /\ phase' = "done"
    /\ UNCHANGED <<env, fs, req, cfgRead, idleVars>>

SpecBuild == InitBuild /\ [][Build]_vars

(***************************************************************************)
(* The ODBC interface, as the commands see it.  A call is logged as        *)
(* <<function, handle, return code>>, with "-" for a return code that the  *)
(* code does not look at.                                                  *)
(***************************************************************************)
SQL_SUCCESS == "SQL_SUCCESS"
SQL_SUCCESS_WITH_INFO == "SQL_SUCCESS_WITH_INFO"
SQL_NO_DATA == "SQL_NO_DATA"
SQL_ERROR == "SQL_ERROR"
SQL_NEED_DATA == "SQL_NEED_DATA"
SQL_INVALID_HANDLE == "SQL_INVALID_HANDLE"
TCL_OK == "TCL_OK"
TCL_ERROR == "TCL_ERROR"

\* the codes the driver returns to each call
AllocCodes == {SQL_SUCCESS, SQL_SUCCESS_WITH_INFO, SQL_ERROR}
DriverConnectCodes == {SQL_SUCCESS, SQL_SUCCESS_WITH_INFO, SQL_ERROR}
ExecCodes ==
    {SQL_SUCCESS, SQL_SUCCESS_WITH_INFO, SQL_NO_DATA, SQL_ERROR, SQL_NEED_DATA}
FetchCodes == {SQL_SUCCESS, SQL_SUCCESS_WITH_INFO, SQL_NO_DATA, SQL_ERROR}

\* ODBC: SQLAllocHandle has allocated the handle when it returns either
\* success code
Allocates(rc) == rc \in {SQL_SUCCESS, SQL_SUCCESS_WITH_INFO}

\* the handles a call log allocated, and how often it freed a handle
AllocatedBy(calls) ==
    {calls[i][2] : i \in {j \in DOMAIN calls :
                            calls[j][1] = "SQLAllocHandle" /\ Allocates(calls[j][3])}}
TimesFreed(calls, h) ==
    Cardinality({i \in DOMAIN calls : calls[i][1] = "SQLFreeHandle" /\ calls[i][2] = h})

\* if (ret != SQL_SUCCESS) after SQLAllocHandle
AllocFailed(rc) == rc # SQL_SUCCESS

\* if (ret != SQL_SUCCESS && ret != SQL_SUCCESS_WITH_INFO) after
\* SQLDriverConnect and after SQLFetch
NotSucceeded(rc) == rc # SQL_SUCCESS /\ rc # SQL_SUCCESS_WITH_INFO

\* the test with a fault: SQL_NO_DATA from SQLExecDirect is taken for a failure
ExecFailedOnNoData(rc) == rc # SQL_SUCCESS /\ rc # SQL_SUCCESS_WITH_INFO

\* if (ret != SQL_SUCCESS && ret != SQL_SUCCESS_WITH_INFO && ret != SQL_NO_DATA)
ExecFailed(rc) ==
    rc # SQL_SUCCESS /\ rc # SQL_SUCCESS_WITH_INFO /\ rc # SQL_NO_DATA

\* Tcl_SetAssocData(interp, name, NULL, obj)
SetAssocData(a, name, obj) == [a EXCEPT ![name] = obj]

\* Tcl_GetAssocData(interp, name, NULL)
GetAssocData(a, name) == IF name \in DOMAIN a THEN a[name] ELSE Null

\* Tcl_DeleteAssocData left out: the name stays registered after its object
\* is freed
DeleteAssocDataKept(a, name) == a

\* Tcl_DeleteAssocData(interp, name)
DeleteAssocData(a, name) == [a EXCEPT ![name] = Null]

\* the structures the commands allocate.  kind is not a field of the C
\* structures: it tells which of the two a pointer really points to.
ConnObj(k) ==
    [kind |-> "conn", henv |-> <<"env", k>>, hdbc |-> <<"dbc", k>>, connected |-> 1]
ResultObj(k, cols) ==
    [kind |-> "result", hstmt |-> <<"stmt", k>>, num_cols |-> Len(cols),
     col_names |-> cols]

(***************************************************************************)
(* ifx::connect dsn ?user? ?password?                                      *)
(***************************************************************************)
\* IfxConnect_Cmd from ckalloc to its return, for the k-th connection and the
\* codes the three ODBC calls return
ConnectOutcome(k, rcEnv, rcDbc, rcConn) ==
    LET henv == <<"env", k>>
        hdbc == <<"dbc", k>>
        c1 == << <<"SQLAllocHandle", henv, rcEnv>> >>
        c2 == c1 \o << <<"SQLSetEnvAttr", henv, "-">>,
                       <<"SQLAllocHandle", hdbc, rcDbc>> >>
        c3 == c2 \o << <<"SQLSetConnectAttr", hdbc, "-">>,
                       <<"SQLSetConnectAttr", hdbc, "-">>,
                       <<"SQLDriverConnect", hdbc, rcConn>> >>
    IN  IF AllocFailed(rcEnv)
        THEN [code |-> TCL_ERROR,
              result |-> "Failed to allocate environment handle",
              calls |-> c1, ckfree |-> 1, registered |-> FALSE]
        ELSE IF AllocFailed(rcDbc)
        THEN [code |-> TCL_ERROR,
              result |-> "Failed to allocate connection handle",
              calls |-> c2 \o << <<"SQLFreeHandle", henv, "-">> >>,
              ckfree |-> 1, registered |-> FALSE]
        ELSE IF NotSucceeded(rcConn)
        THEN [code |-> TCL_ERROR,
              result |-> "Failed to connect",
              calls |-> c3 \o << <<"SQLGetDiagRec", hdbc, "-">>,
                                 <<"SQLFreeHandle", hdbc, "-">>,
                                 <<"SQLFreeHandle", henv, "-">> >>,
              ckfree |-> 1, registered |-> FALSE]
        ELSE [code |-> TCL_OK, result |-> "handle", calls |-> c3,
              ckfree |-> 0, registered |-> TRUE]

\* the return codes of SQLAllocHandle(ENV), SQLAllocHandle(DBC) and
\* SQLDriverConnect in one call of the command: a later call is made only
\* when the earlier ones returned SQL_SUCCESS, and is "-" when it is not made
ConnectRuns ==
    {<<e, "-", "-">> : e \in AllocCodes \ {SQL_SUCCESS}}
    \cup {<<SQL_SUCCESS, d, "-">> : d \in AllocCodes \ {SQL_SUCCESS}}
    \cup {<<SQL_SUCCESS, SQL_SUCCESS, c>> : c \in DriverConnectCodes}

Connect(args) ==
    /\ phase = "run"
    /\ ~crashed
    /\ \/ /\ Len(args) \notin 1..3
          /\ last' = [cmd |-> "connect", code |-> TCL_ERROR,
                      result |-> "wrong # args", handle |-> StrayName,
                      calls |-> <<>>, ckalloc |-> 0, ckfree |-> 0,
                      registered |-> FALSE]
          /\ UNCHANGED <<req, cfgRead, conn_str, assoc, conn_counter>>
       \/ /\ Len(args) \in 1..3
          /\ LET r == PrepareConnect(env, fs, args)
             IN  /\ cfgRead' = r.ini
                 /\ conn_str' = r.conn_str
          /\ req' = [cmd |-> "connect", args |-> args]
          /\ \E rcs \in ConnectRuns :
               LET k == conn_counter + 1
                   o == ConnectOutcome(k, rcs[1], rcs[2], rcs[3])
               IN  /\ o.registered => conn_counter < MaxConns
                   /\ last' = [cmd |-> "connect", code |-> o.code,
                               result |-> o.result,
                               handle |-> IF o.registered THEN ConnName(k)
                                          ELSE StrayName,
                               calls |-> o.calls,
                               ckalloc |-> 1, ckfree |-> o.ckfree,
                               registered |-> o.registered]
                   /\ IF o.registered
                      THEN /\ conn_counter' = k
                           /\ assoc' = SetAssocData(assoc, ConnName(k), ConnObj(k))
                      ELSE UNCHANGED <<assoc, conn_counter>>
    /\ UNCHANGED <<env, fs, phase, result_counter, released, crashed>>

(***************************************************************************)
(* ifx::execute conn_handle sql ?param1 param2 ...?                        *)
(***************************************************************************)
\* the statements the model executes, and the columns SQLNumResultCols and
\* SQLDescribeCol report for each
Statements == {"select a, b", "update"}
ColumnsOf(sql) == IF sql = "select a, b" THEN <<"a", "b">> ELSE <<>>

\* the process dies
Crash(cmd, name, found) ==
    /\ crashed' = TRUE
    /\ last' = [cmd |-> cmd, name |-> name, argsOk |-> TRUE, code |-> "crash",
                result |-> "", handle |-> StrayName, found |-> found,
                misread |-> TRUE, calls |-> <<>>]

Execute(args) ==
    /\ phase = "run"
    /\ ~crashed
    /\ \/ /\ Len(args) < 2
          /\ last' = [cmd |-> "execute", name |-> StrayName, argsOk |-> FALSE,
                      nargs |-> Len(args), sql |-> "", code |-> TCL_ERROR,
                      result |-> "wrong # args", handle |-> StrayName,
                      found |-> "null", misread |-> FALSE, calls |-> <<>>]
          /\ UNCHANGED <<assoc, result_counter, crashed>>
       \/ /\ Len(args) >= 2
          /\ LET name == args[1]
                 sql == args[2]
                 conn == GetAssocData(assoc, name)
                 k == result_counter + 1
                 hstmt == <<"stmt", k>>
                 ret(code, result, misread, calls) ==
                     [cmd |-> "execute", name |-> name, argsOk |-> TRUE,
                      nargs |-> Len(args), sql |-> sql, code |-> code,
                      result |-> result,
                      handle |-> IF code = TCL_OK THEN ResultName(k) ELSE StrayName,
                      found |-> conn.kind, misread |-> misread, calls |-> calls]
             IN  \/ /\ conn = Null
                    /\ last' = ret(TCL_ERROR, "Invalid connection handle", FALSE, <<>>)
                    /\ UNCHANGED <<assoc, result_counter, crashed>>
                 \/ \* an IfxResultSet read as an IfxConnection: connected is
                    \* the bytes of col_names, hdbc those of num_cols
                    /\ conn.kind = "result"
                    /\ \/ /\ last' = ret(TCL_ERROR, "Invalid connection handle",
                                         TRUE, <<>>)
                          /\ UNCHANGED <<assoc, result_counter, crashed>>
                       \/ /\ last' = ret(TCL_ERROR,
                                         "Failed to allocate statement handle", TRUE,
                                         << <<"SQLAllocHandle", <<"garbage">>,
                                              SQL_INVALID_HANDLE>> >>)
                          /\ UNCHANGED <<assoc, result_counter, crashed>>
                       \/ /\ Crash("execute", name, "result")
                          /\ UNCHANGED <<assoc, result_counter>>
                 \/ /\ conn.kind = "conn"
                    /\ \E rcAlloc \in AllocCodes :
                         /\ AllocFailed(rcAlloc)
                         /\ last' = ret(TCL_ERROR,
                                        "Failed to allocate statement handle", FALSE,
                                        << <<"SQLAllocHandle", hstmt, rcAlloc>> >>)
                         /\ UNCHANGED <<assoc, result_counter, crashed>>
                 \/ /\ conn.kind = "conn"
                    /\ \E rcExec \in ExecCodes :
                         LET c == << <<"SQLAllocHandle", hstmt, SQL_SUCCESS>>,
                                     <<"SQLExecDirect", hstmt, rcExec, sql>> >>
                         IN  IF ExecFailed(rcExec)
                             THEN /\ last' = ret(TCL_ERROR, "SQL error", FALSE,
                                                 c \o << <<"SQLGetDiagRec", hstmt, "-">>,
                                                         <<"SQLFreeHandle", hstmt, "-">> >>)
                                  /\ UNCHANGED <<assoc, result_counter, crashed>>
                             ELSE /\ result_counter < MaxResults
                                  /\ last' = ret(TCL_OK, "handle", FALSE,
                                        c \o << <<"SQLNumResultCols", hstmt, "-">> >>
                                          \o [i \in DOMAIN ColumnsOf(sql) |->
                                                <<"SQLDescribeCol", hstmt, "-">>])
                                  /\ result_counter' = k
                                  /\ assoc' = SetAssocData(assoc, ResultName(k),
                                                 ResultObj(k, ColumnsOf(sql)))
                                  /\ UNCHANGED crashed
    /\ UNCHANGED <<env, fs, phase, req, cfgRead, conn_str, conn_counter, released>>

(***************************************************************************)
(* ifx::fetch result_handle                                                *)
(***************************************************************************)
\* what SQLGetData does for one column: its return code, the indicator
\* (SQL_NULL_DATA or a length) and the text left in the buffer
GetDataOutcomes ==
    {[rc |-> SQL_SUCCESS, indicator |-> "length", buffer |-> "x"],
     [rc |-> SQL_SUCCESS, indicator |-> "SQL_NULL_DATA", buffer |-> ""],
     [rc |-> SQL_SUCCESS_WITH_INFO, indicator |-> "length", buffer |-> "x"]}

\* Tcl_DictObjPut: a dictionary is the sequence of its <<key, value>> entries;
\* a key that is present keeps its place and takes the new value
DictPut(d, k, v) ==
    IF \E i \in DOMAIN d : d[i][1] = k
    THEN [i \in DOMAIN d |-> IF d[i][1] = k THEN <<k, v>> ELSE d[i]]
    ELSE Append(d, <<k, v>>)

\* for (i = 0; i < result->num_cols; i++) { SQLGetData ...; Tcl_DictObjPut }
RECURSIVE BuildRow(_, _, _, _)
BuildRow(result, outs, i, dict) ==
    IF i > result.num_cols THEN dict
    ELSE BuildRow(result, outs, i + 1,
            IF outs[i].rc = SQL_SUCCESS
            THEN IF outs[i].indicator = "SQL_NULL_DATA"
                 THEN DictPut(dict, result.col_names[i], "")
                 ELSE DictPut(dict, result.col_names[i], outs[i].buffer)
            ELSE dict)

Fetch(args) ==
    /\ phase = "run"
    /\ ~crashed
    /\ LET base == [cmd |-> "fetch", name |-> StrayName, argsOk |-> FALSE,
                    code |-> TCL_ERROR, result |-> "wrong # args",
                    handle |-> StrayName, found |-> "null", misread |-> FALSE,
                    calls |-> <<>>, rcFetch |-> "-", outs |-> <<>>, row |-> <<>>,
                    cols |-> <<>>]
       IN
       \/ /\ Len(args) # 1
          /\ last' = base
          /\ UNCHANGED crashed
       \/ /\ Len(args) = 1
          /\ LET name == args[1]
                 result == GetAssocData(assoc, name)
                 b == [base EXCEPT !.name = name, !.argsOk = TRUE,
                                   !.found = result.kind]
             IN  \/ /\ result = Null
                    /\ last' = [b EXCEPT !.result = "Invalid result handle"]
                    /\ UNCHANGED crashed
                 \/ \* an IfxConnection read as an IfxResultSet: hstmt is henv
                    /\ result.kind = "conn"
                    /\ \/ /\ last' = [b EXCEPT !.result = "Fetch failed",
                                        !.misread = TRUE,
                                        !.rcFetch = SQL_INVALID_HANDLE,
                                        !.calls = << <<"SQLFetch", result.henv,
                                                       SQL_INVALID_HANDLE>> >>]
                          /\ UNCHANGED crashed
                       \/ Crash("fetch", name, "conn")
                 \/ /\ result.kind = "result"
                    /\ \E rc \in FetchCodes :
                         LET c == << <<"SQLFetch", result.hstmt, rc>> >>
                             r == [b EXCEPT !.rcFetch = rc, !.calls = c,
                                            !.cols = result.col_names]
                         IN  \/ /\ rc = SQL_NO_DATA
                                /\ last' = [r EXCEPT !.code = TCL_OK, !.result = ""]
                             \/ /\ rc # SQL_NO_DATA
                                /\ NotSucceeded(rc)
                                /\ last' = [r EXCEPT !.result = "Fetch failed"]
                             \/ /\ rc # SQL_NO_DATA
                                /\ ~NotSucceeded(rc)
                                /\ \E outs \in [1..result.num_cols -> GetDataOutcomes] :
                                     last' = [r EXCEPT
                                        !.code = TCL_OK, !.result = "dict",
                                        !.outs = outs,
                                        !.calls = c \o [i \in 1..result.num_cols |->
                                            <<"SQLGetData", result.hstmt, outs[i].rc>>],
                                        !.row = BuildRow(result, outs, 1, <<>>)]
                    /\ UNCHANGED crashed
    /\ UNCHANGED <<env, fs, phase, req, cfgRead, conn_str, assoc, conn_counter,
                   result_counter, released>>

(***************************************************************************)
(* ifx::close_result result_handle and ifx::disconnect conn_handle         *)
(***************************************************************************)
CloseResult(args) ==
    /\ phase = "run"
    /\ ~crashed
    /\ LET base == [cmd |-> "close_result", name |-> StrayName, argsOk |-> FALSE,
                    code |-> TCL_ERROR, result |-> "wrong # args",
                    handle |-> StrayName, found |-> "null", misread |-> FALSE,
                    calls |-> <<>>, ckfree |-> 0]
       IN
       \/ /\ Len(args) # 1
          /\ last' = base
          /\ UNCHANGED <<assoc, released, crashed>>
       \/ /\ Len(args) = 1
          /\ LET name == args[1]
                 result == GetAssocData(assoc, name)
                 b == [base EXCEPT !.name = name, !.argsOk = TRUE,
                                   !.found = result.kind, !.code = TCL_OK,
                                   !.result = ""]
             IN  \/ /\ result = Null
                    /\ last' = b
                    /\ UNCHANGED <<assoc, released, crashed>>
                 \/ /\ result.kind = "result"
                    /\ last' = [b EXCEPT
                                  !.calls = << <<"SQLFreeHandle", result.hstmt, "-">> >>,
                                  !.ckfree = result.num_cols + 2]
                    /\ assoc' = DeleteAssocData(assoc, name)
                    /\ released' = released \cup {name}
                    /\ UNCHANGED crashed
                 \/ \* an IfxConnection freed as an IfxResultSet: henv is given
                    \* to SQLFreeHandle as a statement, hdbc and connected are
                    \* read as num_cols and col_names
                    /\ result.kind = "conn"
                    /\ \/ /\ last' = [b EXCEPT
                                        !.misread = TRUE,
                                        !.calls = << <<"SQLFreeHandle", result.henv,
                                                       "-">> >>,
                                        !.ckfree = 2]
                          /\ assoc' = DeleteAssocData(assoc, name)
                          /\ released' = released \cup {name}
                          /\ UNCHANGED crashed
                       \/ /\ Crash("close_result", name, "conn")
                          /\ UNCHANGED <<assoc, released>>
    /\ UNCHANGED <<env, fs, phase, req, cfgRead, conn_str, conn_counter,
                   result_counter>>

Disconnect(args) ==
    /\ phase = "run"
    /\ ~crashed
    /\ LET base == [cmd |-> "disconnect", name |-> StrayName, argsOk |-> FALSE,
                    code |-> TCL_ERROR, result |-> "wrong # args",
                    handle |-> StrayName, found |-> "null", misread |-> FALSE,
                    calls |-> <<>>, ckfree |-> 0]
       IN
       \/ /\ Len(args) # 1
          /\ last' = base
          /\ UNCHANGED <<assoc, released, crashed>>
       \/ /\ Len(args) = 1
          /\ LET name == args[1]
                 conn == GetAssocData(assoc, name)
                 b == [base EXCEPT !.name = name, !.argsOk = TRUE,
                                   !.found = conn.kind, !.code = TCL_OK,
                                   !.result = ""]
             IN  \/ /\ conn = Null
                    /\ last' = b
                    /\ UNCHANGED <<assoc, released, crashed>>
                 \/ /\ conn.kind = "conn"
                    /\ last' = [b EXCEPT
                                  !.calls =
                                     (IF conn.connected # 0
                                      THEN << <<"SQLDisconnect", conn.hdbc, "-">> >>
                                      ELSE <<>>)
                                     \o << <<"SQLFreeHandle", conn.hdbc, "-">>,
                                           <<"SQLFreeHandle", conn.henv, "-">> >>,
                                  !.ckfree = 1]
                    /\ assoc' = DeleteAssocData(assoc, name)
                    /\ released' = released \cup {name}
                    /\ UNCHANGED crashed
                 \/ \* an IfxResultSet freed as an IfxConnection: hstmt is given
                    \* to SQLFreeHandle as an environment, the bytes of num_cols
                    \* as a connection
                    /\ conn.kind = "result"
                    /\ \/ /\ last' = [b EXCEPT
                                        !.misread = TRUE,
                                        !.calls = << <<"SQLFreeHandle", <<"garbage">>,
                                                       "-">>,
                                                     <<"SQLFreeHandle", conn.hstmt,
                                                       "-">> >>,
                                        !.ckfree = 1]
                          /\ assoc' = DeleteAssocData(assoc, name)
                          /\ released' = released \cup {name}
                          /\ UNCHANGED crashed
                       \/ /\ Crash("disconnect", name, "result")
                          /\ UNCHANGED <<assoc, released>>
    /\ UNCHANGED <<env, fs, phase, req, cfgRead, conn_str, conn_counter,
                   result_counter>>

(***************************************************************************)
(* The interpreter with the package loaded: any command, on any name.      *)
(***************************************************************************)
\* /etc/odbc.ini defines the DSN d; no variable is set
Init ==
    /\ env = [ODBCINI |-> Unset, HOME |-> Unset, ODBCSYSINI |-> Unset]
    /\ fs = [p \in {EtcPath} |->
               [exists |-> TRUE,
                lines |-> <<LineSectionD, LineDriver, LineDatabase>>]]
    /\ phase = "run"
    /\ req = NoReq
    /\ cfgRead = [ret |-> 0, config |-> ZeroConfig]
    /\ conn_str = <<>>
    /\ Idle

RunConnectArgs == {<<>>, <<DsnD, ArgUser>>, <<DsnD, ArgUser, ArgUser, ArgUser>>}
ExecuteArgs ==
    {<<n>> : n \in {ConnName(1)}}
    \cup {<<n, sql>> : n \in Names, sql \in Statements}
    \cup {<<n, "update", "param">> : n \in Names}
HandleArgs == {<<>>} \cup {<<n>> : n \in Names}

Next ==
    \/ \E args \in RunConnectArgs : Connect(args)
    \/ \E args \in ExecuteArgs : Execute(args)
    \/ \E args \in HandleArgs : Fetch(args)
    \/ \E args \in HandleArgs : CloseResult(args)
    \/ \E args \in HandleArgs : Disconnect(args)

Spec == Init /\ [][Next]_vars

(***************************************************************************)
(* Properties of the DSN resolution.                                       *)
(***************************************************************************)
\* a[i..] starts with b
StartsAt(a, i, b) ==
    /\ i + Len(b) - 1 <= Len(a)
    /\ \A j \in 1..Len(b) : a[i + j - 1] = b[j]

Contains(a, b) == \E i \in 1..(Len(a) + 1) : StartsAt(a, i, b)

Occurrences(a, b) == Cardinality({i \in 1..Len(a) : StartsAt(a, i, b)})

\* what the [dsn] section of one file sets, read on its own
SectionOf(lines, dsn) ==
    ParseLines([config |-> ZeroConfig, found |-> FALSE, in_section |-> FALSE],
               lines, dsn)

\* the file has a section header naming dsn
HasSection(lines, dsn) ==
    \E i \in DOMAIN lines :
        LET p == SkipBlanks(lines[i])
        IN  p # <<>> /\ Head(p) = "[" /\ ScanSection(p) = dsn

\* the searched paths that open, in the search order
OpenedPaths == SelectSeq(IniPaths(env), LAMBDA p : FOpen(fs, p).exists)

\* the indexes, in OpenedPaths, of the files whose [dsn] section names a driver
Resolving(dsn) ==
    {i \in DOMAIN OpenedPaths : SectionOf(fs[OpenedPaths[i]].lines, dsn).found}

FirstResolving(dsn) ==
    CHOOSE i \in Resolving(dsn) : \A j \in Resolving(dsn) : i <= j

\* C1: when some searched file defines the DSN, every field of the DsnConfig
\* that read_odbc_ini returns is what the [dsn] section of the first such
\* file sets: no other file contributes.
C1_FirstFileOnly ==
    (phase = "done" /\ req.cmd = "connect" /\ Resolving(req.args[1]) # {}) =>
        /\ cfgRead.ret = 1
        /\ cfgRead.config =
             SectionOf(fs[OpenedPaths[FirstResolving(req.args[1])]].lines,
                       req.args[1]).config

\* the components the connection string takes from the DsnConfig
ConfigKeys ==
    {<<StrDATABASE, "database">>, <<StrHOST, "host">>, <<StrSERVER, "server">>,
     <<StrSERVICE, "service">>, <<StrPROTOCOL, "protocol">>}

\* C2: whenever a searched file has a section named as the dsn argument, the
\* connection string holds a DATABASE, HOST, SERVER, SERVICE and PROTOCOL
\* component for each of these keys the section sets to a non-empty value.
C2_SectionReachesConnStr ==
    (phase = "done" /\ req.cmd = "connect") =>
        \A i \in DOMAIN OpenedPaths :
            LET lines == fs[OpenedPaths[i]].lines
            IN  HasSection(lines, req.args[1]) =>
                    \A k \in ConfigKeys :
                        SectionOf(lines, req.args[1]).config[k[2]] # <<>> =>
                            Contains(conn_str, <<";">> \o k[1] \o <<"=">>)

(***************************************************************************)
(* Properties of build_connection_string.                                  *)
(***************************************************************************)
Component(key, value) == key \o <<"=">> \o value \o <<";">>

RECURSIVE Concat(_)
Concat(parts) == IF parts = <<>> THEN <<>> ELSE Head(parts) \o Concat(Tail(parts))

\* the components in their order, each with the condition it is present on
ExpectedConnStr(config, dsn, user, password) ==
    LET uid == IF user # <<>> THEN user ELSE config.user
        pwd == IF password # <<>> THEN password ELSE config.password
        all == << <<StrDSN, dsn, TRUE>>,
                  <<StrDATABASE, config.database, config.database # <<>> >>,
                  <<StrHOST, config.host, config.host # <<>> >>,
                  <<StrSERVER, config.server, config.server # <<>> >>,
                  <<StrSERVICE, config.service, config.service # <<>> >>,
                  <<StrPROTOCOL, config.protocol, config.protocol # <<>> >>,
                  <<StrUID, uid, uid # <<>> >>,
                  <<StrPWD, pwd, pwd # <<>> >> >>
        kept == SelectSeq(all, LAMBDA x : x[3])
    IN  Concat([i \in DOMAIN kept |-> Component(kept[i][1], kept[i][2])])

\* C3: the string built is the concatenation, in the order DSN, DATABASE, HOST,
\* SERVER, SERVICE, PROTOCOL, UID, PWD, of the components whose value is not
\* empty (DSN always), UID and PWD taking the argument when it is not empty
\* and the configured value otherwise, and at most one UID and one PWD.
C3_ConnStrComponents ==
    (phase = "done" /\ req.cmd = "build") =>
        /\ conn_str = ExpectedConnStr(cfgRead.config, req.args[1], req.args[2],
                                      req.args[3])
        /\ Occurrences(conn_str, StrUID \o <<"=">>) <= 1
        /\ Occurrences(conn_str, StrPWD \o <<"=">>) <= 1

\* C3's case: the argument and the file both name a user, the file alone a
\* password, and a component in the middle is absent
C3_Witness ==
    /\ phase = "done" /\ req.cmd = "build"
    /\ req.args[2] # <<>> /\ cfgRead.config.user # <<>>
    /\ req.args[3] = <<>> /\ cfgRead.config.password # <<>>
    /\ cfgRead.config.host = <<>> /\ cfgRead.config.server # <<>>
    /\ Contains(conn_str, StrUID \o <<"=">> \o req.args[2] \o <<";">>)

(***************************************************************************)
(* Properties of the commands.                                             *)
(***************************************************************************)
\* C4: once a disconnect or a close_result has released the object behind a
\* name, every later ifx::execute on the name returns the error "Invalid
\* connection handle" and every later ifx::fetch on it "Invalid result
\* handle", and neither makes an ODBC call.
C4_UseAfterReleaseRejected ==
    /\ (last.cmd = "execute" /\ last.argsOk /\ last.name \in released) =>
           /\ last.code = TCL_ERROR
           /\ last.result = "Invalid connection handle"
           /\ last.calls = <<>>
    /\ (last.cmd = "fetch" /\ last.argsOk /\ last.name \in released) =>
           /\ last.code = TCL_ERROR
           /\ last.result = "Invalid result handle"
           /\ last.calls = <<>>

\* C4's case: an execute on the first connection's name after its disconnect,
\* with a second connection made since and live
C4_Witness ==
    /\ last.cmd = "execute" /\ last.argsOk
    /\ last.name = ConnName(1) /\ ConnName(1) \in released
    /\ assoc[ConnName(2)].kind = "conn"
    /\ last.result = "Invalid connection handle"

\* the kind of object each command is for
OwnKind(cmd) == IF cmd \in {"execute", "disconnect"} THEN "conn" ELSE "result"

\* C5: given the name of a live handle of the other kind, execute returns
\* "Invalid connection handle", fetch "Invalid result handle", close_result
\* and disconnect do nothing, and the object is neither read as the wrong
\* structure nor freed.
C5_OwnKindOnly ==
    (/\ last.cmd \in {"execute", "fetch", "close_result", "disconnect"}
     /\ last.argsOk
     /\ last.found \notin {"null", OwnKind(last.cmd)}) =>
        /\ ~last.misread
        /\ last.calls = <<>>
        /\ last.cmd = "execute" =>
               last.code = TCL_ERROR /\ last.result = "Invalid connection handle"
        /\ last.cmd = "fetch" =>
               last.code = TCL_ERROR /\ last.result = "Invalid result handle"
        /\ last.cmd \in {"close_result", "disconnect"} =>
               /\ last.code = TCL_OK
               /\ last.ckfree = 0
               /\ assoc[last.name].kind = last.found

\* C6: a fetch that retrieves a row returns a dictionary with one entry per
\* column, keyed by the column's name and holding its value, the empty value
\* for an SQL NULL, whatever SQLGetData returned for the column; with no more
\* rows it returns TCL_OK and the empty string; the handle stays registered.
C6_RowHasEveryColumn ==
    (last.cmd = "fetch" /\ last.argsOk /\ last.found = "result") =>
        /\ last.rcFetch \in {SQL_SUCCESS, SQL_SUCCESS_WITH_INFO} =>
               /\ last.code = TCL_OK
               /\ last.result = "dict"
               /\ Len(last.row) = Len(last.cols)
               /\ \A i \in DOMAIN last.cols :
                      last.row[i] =
                          <<last.cols[i],
                            IF last.outs[i].indicator = "SQL_NULL_DATA"
                            THEN "" ELSE last.outs[i].buffer>>
        /\ last.rcFetch = SQL_NO_DATA =>
               last.code = TCL_OK /\ last.result = "" /\ last.row = <<>>
        /\ last.code = TCL_OK => assoc[last.name].kind = "result"

\* the return code of the SQLExecDirect call in a call log, "-" when the log
\* has none
ExecCode(calls) ==
    IF \E i \in DOMAIN calls : calls[i][1] = "SQLExecDirect"
    THEN calls[CHOOSE i \in DOMAIN calls : calls[i][1] = "SQLExecDirect"][3]
    ELSE "-"

\* C7: an execute on a live connection handle returns TCL_OK with a newly
\* registered result handle exactly when SQLExecDirect returns SQL_SUCCESS,
\* SQL_SUCCESS_WITH_INFO or SQL_NO_DATA; on any other code it returns
\* TCL_ERROR, frees the statement handle, registers nothing, leaves the
\* result counter and the connection as they were; the statement executed is
\* the sql argument, with or without further arguments.
C7_ExecuteOutcome ==
    [][(last'.cmd = "execute" /\ last'.argsOk /\ last'.found = "conn") =>
          LET rc == ExecCode(last'.calls)
              k == result_counter + 1
          IN  /\ last'.code \in {TCL_OK, TCL_ERROR}
              /\ last'.code = TCL_OK <=>
                     rc \in {SQL_SUCCESS, SQL_SUCCESS_WITH_INFO, SQL_NO_DATA}
              /\ last'.code = TCL_OK =>
                     /\ last'.handle = ResultName(k)
                     /\ assoc[ResultName(k)] = Null
                     /\ assoc'[ResultName(k)].kind = "result"
                     /\ assoc'[ResultName(k)].hstmt \in AllocatedBy(last'.calls)
                     /\ result_counter' = k
              /\ (rc # "-" /\ last'.code = TCL_ERROR) =>
                     /\ \A h \in AllocatedBy(last'.calls) :
                            TimesFreed(last'.calls, h) = 1
                     /\ assoc' = assoc
                     /\ result_counter' = result_counter
              /\ assoc'[last'.name] = assoc[last'.name]
              /\ assoc'[last'.name].kind = "conn"
              /\ rc # "-" =>
                     \E i \in DOMAIN last'.calls :
                         /\ last'.calls[i][1] = "SQLExecDirect"
                         /\ last'.calls[i][4] = last'.sql
    ]_vars

\* C7's case: an execute with a further argument whose SQLExecDirect returned
\* SQL_NO_DATA, and which registered the second result handle
C7_Witness ==
    /\ last.cmd = "execute" /\ last.found = "conn"
    /\ last.nargs = 3
    /\ ExecCode(last.calls) = SQL_NO_DATA
    /\ last.code = TCL_OK
    /\ last.handle = ResultName(2)
    /\ assoc[ResultName(2)].kind = "result"

\* C8: a connect that fails returns TCL_ERROR with every ODBC handle it
\* allocated freed exactly once, the IfxConnection structure freed, no name
\* registered and the counter unchanged.
C8_FailedConnectLeavesNothing ==
    (last.cmd = "connect" /\ last.code = TCL_ERROR) =>
        /\ \A h \in AllocatedBy(last.calls) : TimesFreed(last.calls, h) = 1
        /\ last.ckfree = last.ckalloc
        /\ ~last.registered
        /\ last.handle = StrayName
        /\ \A n \in Names : assoc[n].kind = "conn" => n[2] <= conn_counter

====
